---------------------------- MODULE Spec2Model ----------------------------
(***************************************************************************)
(* A model of the jlens selector engine (src/src/lib.rs, with the older    *)
(* revision src/src/jlens.rs where the two differ).                        *)
(*                                                                         *)
(* A document is a tree of Json nodes.  A node is named by its address,    *)
(* modelled as a number 1..n (1 is the root); address 0 is the static      *)
(* SINGLETON that and()/or() hand out.  A JsonPath is the chain of node    *)
(* addresses from the root to the node it points to: Root(r) is <<r>> and  *)
(* p.descendant(c) is Append(p, c).                                        *)
(*                                                                         *)
(* A selector is a record [op, arg, inner, left, right].  Select(s, input) *)
(* is the sequence of paths that s.select(input, f) passes to f, in call   *)
(* order.  The closure a selector hands to its inner selector is one       *)
(* operator per selector (ParentVisit, UnionLeft, ...), over a record of   *)
(* the locals the closure captures (seen, seen_left, found_left, ...) plus *)
(* out, the calls made to f so far.  The outermost select call of a query  *)
(* is run one closure call per step by the actions below, with the same    *)
(* operators.                                                              *)
(***************************************************************************)
EXTENDS Integers, Sequences, FiniteSets, TLC

VARIABLES
    doc,          \* the document being queried (immutable during a query)
    sel,          \* the selector passed to query()
    pc,           \* "idle" | "run" | "done": position of query()
    pending,      \* inner matches the outermost select has still to be called back with
    side,         \* "left" | "right": which half of a two-sided closure runs next
    pass,         \* 1 | 2: which of Diff's two inner traversals is running
    loc,          \* locals of the outermost select call (seen sets, found flags) and out
    outvec,       \* query()'s result vector: the node of every path passed to its closure
    history       \* the queries the caller has run on the document and what each returned

vars == <<doc, sel, pc, pending, side, pass, loc, outvec, history>>

-----------------------------------------------------------------------------
(* Bounds *)

\* generated documents have at most this many nodes
MaxNodes == 4
\* number of siblings / branches in the parametrised example documents
FanOut == 3
\* depth of the deep example document
Depth == 5

-----------------------------------------------------------------------------
(* Documents *)

\* address of the static SINGLETON
SINGLETON == [addr |-> 0, kind |-> "Boolean", val |-> TRUE]

Kinds == {"Object", "Array", "String", "U64", "I64", "F64", "Boolean", "Null"}

\* A document: par[i] is the address of the container holding node i (0 for
\* the root), kind[i] its Json variant, val[i] its value when a leaf, key[i]
\* the key it is stored under when its container is an Object.
MkDoc(par, kind, val, key) == [par |-> par, kind |-> kind, val |-> val, key |-> key]

Size(d) == Len(d.par)

RECURSIVE SortedSeq(_)
SortedSeq(S) ==
    IF S = {} THEN <<>>
    ELSE LET m == CHOOSE x \in S : \A y \in S : x <= y
         IN <<m>> \o SortedSeq(S \ {m})

\* v.iter() of an Array / m.iter() of an Object: the children in order.
\* Array elements are numbered in array order; an Object is a TreeMap, which
\* iterates in key order, and documents number an object's values in key order.
ChildrenOf(d, j) ==
    IF j = SINGLETON.addr THEN <<>>
    ELSE SortedSeq({i \in 1..Size(d) : d.par[i] = j})

KindOf(d, j) == IF j = SINGLETON.addr THEN SINGLETON.kind ELSE d.kind[j]
ValOf(d, j) == IF j = SINGLETON.addr THEN SINGLETON.val ELSE d.val[j]


-----------------------------------------------------------------------------
(* JsonPath *)

\* JsonPath::root
Root(r) == <<r>>

\* JsonPath::descendant
Descendant(p, child) == Append(p, child)

\* JsonPath::node
PathNode(p) == p[Len(p)]

\* JsonPath::parent is None for a Root
HasParent(p) == Len(p) > 1

\* JsonPath::parent, the Some(p) case
PathParent(p) == SubSeq(p, 1, Len(p) - 1)

-----------------------------------------------------------------------------
(* Selector constructors: the structs built by the methods of trait Selector *)

Node == [op |-> "node"]
ObjectSel(s) == [op |-> "object", inner |-> s]
ListSel(s) == [op |-> "list", inner |-> s]
StringSel(s) == [op |-> "string", inner |-> s]
StringEquals(s, comp) == [op |-> "string_equals", inner |-> s, comp |-> comp]
BooleanSel(s) == [op |-> "boolean", inner |-> s]
BooleanEquals(s, comp) == [op |-> "boolean_equals", inner |-> s, comp |-> comp]
U64Sel(s) == [op |-> "uint64", inner |-> s]
U64Equals(s, comp) == [op |-> "uint64_equals", inner |-> s, comp |-> comp]
I64Sel(s) == [op |-> "int64", inner |-> s]
I64Equals(s, comp) == [op |-> "int64_equals", inner |-> s, comp |-> comp]
F64Sel(s) == [op |-> "float64", inner |-> s]
F64Equals(s, comp) == [op |-> "float64_equals", inner |-> s, comp |-> comp]
NullSel(s) == [op |-> "null", inner |-> s]
At(s, index) == [op |-> "at", inner |-> s, index |-> index]
Key(s, name) == [op |-> "key", inner |-> s, name |-> name]
Child(s) == [op |-> "child", inner |-> s]
Parent(s) == [op |-> "parent", inner |-> s]
Descend(s) == [op |-> "descend", inner |-> s]
Ascend(s) == [op |-> "ascend", inner |-> s]
Wherein(s, filter) == [op |-> "wherein", inner |-> s, filter |-> filter]
Union(s, left, right) == [op |-> "union", inner |-> s, left |-> left, right |-> right]
Intersect(s, left, right) == [op |-> "intersect", inner |-> s, left |-> left, right |-> right]
Diff(s, left, right) == [op |-> "diff", inner |-> s, left |-> left, right |-> right]
AndSel(s, left, right) == [op |-> "and", inner |-> s, left |-> left, right |-> right]
OrSel(s, left, right) == [op |-> "or", inner |-> s, left |-> left, right |-> right]

FilterOps ==
    {"object", "list", "string", "string_equals", "boolean", "boolean_equals",
     "uint64", "uint64_equals", "int64", "int64_equals", "float64",
     "float64_equals", "null"}

-----------------------------------------------------------------------------
(* Locals of one select call, and the calls it has made to f *)

Locals0 ==
    [seen |-> {}, seen_left |-> {}, seen_right |-> {},
     found_left |-> FALSE, found_right |-> FALSE, out |-> <<>>]

\* f(p)
Emit(L, p) == [L EXCEPT !.out = Append(@, p)]

\* Select(s, input): the paths s.select(input, f) calls f with, in order.
\* Call(c, s, L, x): closure c of selector s called with path x.
\* ForEach(c, s, L, xs): closure c called with each path of xs in turn.
RECURSIVE Select(_, _), Call(_, _, _, _), ForEach(_, _, _, _)
RECURSIVE descend_helper(_, _), DescendChildren(_, _, _), ascend_helper(_, _)

-----------------------------------------------------------------------------
(* Primitive filters *)

\* the match arms with one arm for all three numeric variants
VariantMatchesAnyNumber(s, j) ==
    LET k == KindOf(doc, j)
        n == k \in {"U64", "I64", "F64"}
    IN
    CASE s.op = "object" -> k = "Object"
      [] s.op = "list" -> k = "Array"
      [] s.op = "string" -> k = "String"
      [] s.op = "string_equals" -> k = "String" /\ s.comp = ValOf(doc, j)
      [] s.op = "boolean" -> k = "Boolean"
      [] s.op = "boolean_equals" -> k = "Boolean" /\ ValOf(doc, j) = s.comp
      [] s.op \in {"uint64", "int64", "float64"} -> n
      [] s.op \in {"uint64_equals", "int64_equals", "float64_equals"} ->
            n /\ ValOf(doc, j) = s.comp
      [] s.op = "null" -> k = "Null"

\* the match arm of each type / equality filter
VariantMatches(s, j) ==
    LET k == KindOf(doc, j) IN
    CASE s.op = "object" -> k = "Object"
      [] s.op = "list" -> k = "Array"
      [] s.op = "string" -> k = "String"
      [] s.op = "string_equals" -> k = "String" /\ s.comp = ValOf(doc, j)
      [] s.op = "boolean" -> k = "Boolean"
      [] s.op = "boolean_equals" -> k = "Boolean" /\ ValOf(doc, j) = s.comp
      [] s.op = "uint64" -> k = "U64"
      [] s.op = "uint64_equals" -> k = "U64" /\ ValOf(doc, j) = s.comp
      [] s.op = "int64" -> k = "I64"
      [] s.op = "int64_equals" -> k = "I64" /\ ValOf(doc, j) = s.comp
      [] s.op = "float64" -> k = "F64"
      [] s.op = "float64_equals" -> k = "F64" /\ ValOf(doc, j) = s.comp
      [] s.op = "null" -> k = "Null"

FilterVisit(s, L, x) ==
    IF VariantMatches(s, PathNode(x)) THEN Emit(L, x) ELSE L

-----------------------------------------------------------------------------
(* Navigational selectors *)

\* At's closure counting the elements from one
AtVisitOneBased(s, L, x) ==
    LET j == PathNode(x)
        v == ChildrenOf(doc, j)
    IN IF KindOf(doc, j) = "Array" /\ s.index >= 1 /\ Len(v) >= s.index
       THEN Emit(L, Descendant(x, v[s.index]))
       ELSE L

AtVisit(s, L, x) ==
    LET j == PathNode(x)
        v == ChildrenOf(doc, j)
    IN IF KindOf(doc, j) = "Array" /\ Len(v) > s.index
       THEN Emit(L, Descendant(x, v[s.index + 1]))
       ELSE L

\* Key's closure looking the name up in any container
KeyVisitAnyContainer(s, L, x) ==
    LET j == PathNode(x)
        m == ChildrenOf(doc, j)
        e == {i \in 1..Len(m) : doc.key[m[i]] = s.name}
    IN IF e # {}
       THEN Emit(L, Descendant(x, m[CHOOSE i \in e : TRUE]))
       ELSE L

KeyVisit(s, L, x) ==
    LET j == PathNode(x)
        m == ChildrenOf(doc, j)
        e == {i \in 1..Len(m) : doc.key[m[i]] = s.name}
    IN IF KindOf(doc, j) = "Object" /\ e # {}
       THEN Emit(L, Descendant(x, m[CHOOSE i \in e : TRUE]))
       ELSE L

\* Child's closure without the Object arm
ChildVisitArrayOnly(L, x) ==
    LET j == PathNode(x)
        v == ChildrenOf(doc, j)
    IN IF KindOf(doc, j) = "Array"
       THEN [L EXCEPT !.out = @ \o [i \in 1..Len(v) |-> Descendant(x, v[i])]]
       ELSE L

\* Child hanging each child under the root path, not under x
ChildVisitFromRoot(L, x) ==
    LET j == PathNode(x)
        v == ChildrenOf(doc, j)
    IN IF KindOf(doc, j) \in {"Array", "Object"}
       THEN [L EXCEPT !.out = @ \o [i \in 1..Len(v) |-> Descendant(Root(x[1]), v[i])]]
       ELSE L

ChildVisit(L, x) ==
    LET j == PathNode(x)
        v == ChildrenOf(doc, j)
    IN IF KindOf(doc, j) \in {"Object", "Array"}
       THEN [L EXCEPT !.out = @ \o [i \in 1..Len(v) |-> Descendant(x, v[i])]]
       ELSE L

\* Parent's closure without the seen set
ParentVisitNoSeen(L, x) ==
    IF HasParent(x) THEN Emit(L, PathParent(x)) ELSE L

ParentVisit(L, x) ==
    IF HasParent(x)
    THEN LET p == PathParent(x)
             j == PathNode(p)
         IN IF j \notin L.seen
            THEN Emit([L EXCEPT !.seen = @ \cup {j}], p)
            ELSE L
    ELSE L

\* descend_helper without the seen set
descend_helper_noseen(input, L) ==
    IF KindOf(doc, PathNode(input)) \in {"Object", "Array"}
    THEN DescendChildren(input, ChildrenOf(doc, PathNode(input)), L)
    ELSE L

descend_helper(input, L) ==
    LET j == PathNode(input) IN
    IF j \notin L.seen
    THEN LET L1 == [L EXCEPT !.seen = @ \cup {j}]
         IN IF KindOf(doc, j) \in {"Object", "Array"}
            THEN DescendChildren(input, ChildrenOf(doc, j), L1)
            ELSE L1
    ELSE L

\* the for loop calling f on a child after the recursion into it
RECURSIVE DescendChildrenAfter(_, _, _)
DescendChildrenAfter(input, cs, L) ==
    IF cs = <<>> THEN L
    ELSE LET inner == Descendant(input, Head(cs))
         IN DescendChildrenAfter(input, Tail(cs), Emit(descend_helper(inner, L), inner))

\* the for loop over the children c of input's node
DescendChildren(input, cs, L) ==
    IF cs = <<>> THEN L
    ELSE LET inner == Descendant(input, Head(cs))
         IN DescendChildren(input, Tail(cs), descend_helper(inner, Emit(L, inner)))

DescendVisit(L, x) == descend_helper(x, L)

\* ascend_helper calling f on the way back down: the farthest ancestor first
RECURSIVE ascend_helper_topdown(_, _)
ascend_helper_topdown(input, L) ==
    IF HasParent(input)
    THEN LET x == PathParent(input)
             j == PathNode(x)
         IN IF j \notin L.seen
            THEN Emit(ascend_helper_topdown(x, [L EXCEPT !.seen = @ \cup {j}]), x)
            ELSE L
    ELSE L

\* ascend_helper without the seen set: every walk runs up to the root
RECURSIVE ascend_helper_noseen(_, _)
ascend_helper_noseen(input, L) ==
    IF HasParent(input)
    THEN ascend_helper_noseen(PathParent(input), Emit(L, PathParent(input)))
    ELSE L

ascend_helper(input, L) ==
    IF HasParent(input)
    THEN LET x == PathParent(input)
             j == PathNode(x)
         IN IF j \notin L.seen
            THEN ascend_helper(x, Emit([L EXCEPT !.seen = @ \cup {j}], x))
            ELSE L
    ELSE L

AscendVisit(L, n) == ascend_helper(n, L)

-----------------------------------------------------------------------------
(* Combinators *)

\* Wherein's closure running the filter on one set kept across its calls
WhereinVisitShared(s, L, x) ==
    IF s.filter.op = "node" THEN Emit(L, x)
    ELSE LET r == ForEach("Visit", s.filter, [Locals0 EXCEPT !.seen = L.seen],
                          Select(s.filter.inner, x))
         IN IF r.out # <<>>
            THEN Emit([L EXCEPT !.seen = r.seen], x)
            ELSE [L EXCEPT !.seen = r.seen]

\* Wherein's closure re-yielding x once per match of the filter
WhereinVisitEach(s, L, x) ==
    [L EXCEPT !.out = @ \o [i \in 1..Len(Select(s.filter, x)) |-> x]]

\* |_| matches = true, then if matches { f(x) }
WhereinVisit(s, L, x) ==
    LET matches == Select(s.filter, x) # <<>>
    IN IF matches THEN Emit(L, x) ELSE L

\* Union's closure without the seen set
UnionSeenNoSeen(L, x) == Emit(L, x)

\* the closure Union hands to left and to right
UnionSeen(L, x) ==
    LET j == PathNode(x)
    IN IF j \notin L.seen
       THEN Emit([L EXCEPT !.seen = @ \cup {j}], x)
       ELSE L

\* Union's first pass running right instead of left
UnionLeftRunsRight(s, L, x) == ForEach("UnionSeen", s, L, Select(s.right, x))

UnionLeft(s, L, x) == ForEach("UnionSeen", s, L, Select(s.left, x))
UnionRight(s, L, x) == ForEach("UnionSeen", s, L, Select(s.right, x))
UnionVisit(s, L, x) == UnionRight(s, UnionLeft(s, L, x), x)

\* Intersect's left closure only recording, never emitting
IntersectSeenLeftQuiet(L, x) == [L EXCEPT !.seen_left = @ \cup {PathNode(x)}]

\* the closure Intersect hands to left
IntersectSeenLeft(L, x) ==
    LET j == PathNode(x)
        L1 == [L EXCEPT !.seen_left = @ \cup {j}]
    IN IF j \in L1.seen_right THEN Emit(L1, x) ELSE L1

\* Intersect's right closure emitting without looking in seen_left
IntersectSeenRightAny(L, x) == Emit([L EXCEPT !.seen_right = @ \cup {PathNode(x)}], x)

\* the closure Intersect hands to right
IntersectSeenRight(L, x) ==
    LET j == PathNode(x)
        L1 == [L EXCEPT !.seen_right = @ \cup {j}]
    IN IF j \in L1.seen_left THEN Emit(L1, x) ELSE L1

IntersectLeft(s, L, x) == ForEach("IntersectSeenLeft", s, L, Select(s.left, x))
IntersectRight(s, L, x) == ForEach("IntersectSeenRight", s, L, Select(s.right, x))
IntersectVisit(s, L, x) == IntersectRight(s, IntersectLeft(s, L, x), x)

\* jlens.rs, Intersect::select: the closure handed to left binds the node j of
\* left's match m by the pattern Path(j,_), so the x in f(x) is the inner match
JlensSeenLeft(L, m, x) ==
    LET j == PathNode(m)
        L1 == [L EXCEPT !.seen_left = @ \cup {j}]
    IN IF j \in L1.seen_right THEN Emit(L1, x) ELSE L1

\* jlens.rs: self.left.select(x, ...) calling that closure with each match
RECURSIVE JlensLeftEach(_, _, _)
JlensLeftEach(ms, L, x) ==
    IF ms = <<>> THEN L ELSE JlensLeftEach(Tail(ms), JlensSeenLeft(L, Head(ms), x), x)

JlensIntersectLeft(s, L, x) == JlensLeftEach(Select(s.left, x), L, x)

\* jlens.rs: the closure handed to right binds x@Path(j,_) and calls f(x), as
\* in lib.rs
JlensIntersectVisit(s, L, x) == IntersectRight(s, JlensIntersectLeft(s, L, x), x)

\* jlens.rs: self.inner.select(input, ...) calling the outer closure in turn
RECURSIVE JlensIntersectEach(_, _, _)
JlensIntersectEach(s, L, xs) ==
    IF xs = <<>> THEN L
    ELSE JlensIntersectEach(s, JlensIntersectVisit(s, L, Head(xs)), Tail(xs))

\* first traversal of Diff: the closure handed to right
DiffSeen(L, x) == [L EXCEPT !.seen = @ \cup {PathNode(x)}]

\* second traversal of Diff: the closure handed to left
\* Diff's second traversal remembering what it has emitted
DiffUnseenOnce(L, x) ==
    IF PathNode(x) \notin L.seen THEN Emit(DiffSeen(L, x), x) ELSE L

DiffUnseen(L, x) == IF PathNode(x) \notin L.seen THEN Emit(L, x) ELSE L

\* Diff's first traversal keeping only the right matches of the latest inner match
DiffRightPerMatch(s, L, x) ==
    ForEach("DiffSeen", s, [L EXCEPT !.seen = {}], Select(s.right, x))

DiffRight(s, L, x) == ForEach("DiffSeen", s, L, Select(s.right, x))
DiffLeft(s, L, x) == ForEach("DiffUnseen", s, L, Select(s.left, x))

\* |_| found_left = true / |_| found_right = true, shared by AndSel and OrSel
FoundLeft(s, L, x) ==
    IF Select(s.left, x) # <<>> THEN [L EXCEPT !.found_left = TRUE] ELSE L
FoundRight(s, L, x) ==
    IF Select(s.right, x) # <<>> THEN [L EXCEPT !.found_right = TRUE] ELSE L
FoundVisit(s, L, x) == FoundRight(s, FoundLeft(s, L, x), x)

\* after inner.select returns: if found_left && found_right { f(input.descendant(&SINGLETON)) }
AndReturn(input, L) ==
    IF L.found_left /\ L.found_right
    THEN Emit(L, Descendant(input, SINGLETON.addr))
    ELSE L

\* OrSel's test with && for ||
OrReturnBoth(input, L) ==
    IF L.found_left /\ L.found_right
    THEN Emit(L, Descendant(input, SINGLETON.addr))
    ELSE L

OrReturn(input, L) ==
    IF L.found_left \/ L.found_right
    THEN Emit(L, Descendant(input, SINGLETON.addr))
    ELSE L

-----------------------------------------------------------------------------
(* select *)

\* the closure a selector passes to self.inner.select
Visit(s, L, x) ==
    CASE s.op \in FilterOps -> FilterVisit(s, L, x)
      [] s.op = "at" -> AtVisit(s, L, x)
      [] s.op = "key" -> KeyVisit(s, L, x)
      [] s.op = "child" -> ChildVisit(L, x)
      [] s.op = "parent" -> ParentVisit(L, x)
      [] s.op = "descend" -> DescendVisit(L, x)
      [] s.op = "ascend" -> AscendVisit(L, x)
      [] s.op = "wherein" -> WhereinVisit(s, L, x)
      [] s.op = "union" -> UnionVisit(s, L, x)
      [] s.op = "intersect" -> IntersectVisit(s, L, x)
      [] s.op = "diff" -> DiffRight(s, L, x)
      [] s.op \in {"and", "or"} -> FoundVisit(s, L, x)

Call(c, s, L, x) ==
    CASE c = "Visit" -> Visit(s, L, x)
      [] c = "UnionSeen" -> UnionSeen(L, x)
      [] c = "IntersectSeenLeft" -> IntersectSeenLeft(L, x)
      [] c = "IntersectSeenRight" -> IntersectSeenRight(L, x)
      [] c = "DiffSeen" -> DiffSeen(L, x)
      [] c = "DiffUnseen" -> DiffUnseen(L, x)
      [] c = "DiffLeft" -> DiffLeft(s, L, x)

ForEach(c, s, L, xs) ==
    IF xs = <<>> THEN L
    ELSE ForEach(c, s, Call(c, s, L, Head(xs)), Tail(xs))

\* what select does once its (first) inner.select has returned
Return(s, input, L) ==
    CASE s.op = "diff" -> ForEach("DiffLeft", s, L, Select(s.inner, input))
      [] s.op = "and" -> AndReturn(input, L)
      [] s.op = "or" -> OrReturn(input, L)
      [] OTHER -> L

Select(s, input) ==
    IF s.op = "node" THEN <<input>>
    ELSE Return(s, input, ForEach("Visit", s, Locals0, Select(s.inner, input))).out

\* JsonExt::query: the node of every path select passes to the closure
NodesOf(ps) == [i \in 1..Len(ps) |-> PathNode(ps[i])]

Query(s) == NodesOf(Select(s, Root(1)))

-----------------------------------------------------------------------------
(* The documents queried *)

\* every numbering par[1] = 0, 1 <= par[i] < i of a tree of n nodes
RECURSIVE ParVectors(_)
ParVectors(n) ==
    IF n = 1 THEN {<<0>>}
    ELSE {Append(p, q) : p \in ParVectors(n - 1), q \in 1..(n - 1)}

LeafKinds == <<"String", "U64", "U64", "Null", "U64", "Null", "Array", "U64">>
KeyNames == <<"bar", "baz", "foo", "k4", "k5", "k6", "k7", "k8", "k9">>

\* a document of shape par; fl varies which variants the nodes have
GenDoc(par, fl) ==
    LET n == Len(par)
        hasChild(i) == \E c \in 1..n : par[c] = i
        kind == [i \in 1..n |->
                    IF hasChild(i)
                    THEN (IF (i + fl) % 2 = 1 THEN "Array" ELSE "Object")
                    ELSE LeafKinds[((i + 3 * fl) % Len(LeafKinds)) + 1]]
        val == [i \in 1..n |->
                    CASE kind[i] = "U64" -> 1 + ((i \div 2) % 2)
                      [] kind[i] = "String" -> "a"
                      [] OTHER -> 0]
        key == [i \in 1..n |-> KeyNames[((i - 1) % Len(KeyNames)) + 1]]
    IN MkDoc(par, kind, val, key)

GenDocs == {GenDoc(par, fl) : par \in UNION {ParVectors(n) : n \in 1..MaxNodes}, fl \in 0..1}

\* [{}, {}, ...]: an array of N empty objects (test parent_unique)
SiblingsDoc(N) ==
    MkDoc([i \in 1..(N + 1) |-> IF i = 1 THEN 0 ELSE 1],
          [i \in 1..(N + 1) |-> IF i = 1 THEN "Array" ELSE "Object"],
          [i \in 1..(N + 1) |-> 0],
          [i \in 1..(N + 1) |-> ""])

\* [[{}], [{}], ...]: an array of N arrays, each of one empty object (test ascend_unique)
NestedDoc(N) ==
    MkDoc([i \in 1..(2 * N + 1) |-> IF i = 1 THEN 0 ELSE IF i <= N + 1 THEN 1 ELSE i - N],
          [i \in 1..(2 * N + 1) |-> IF i <= N + 1 THEN "Array" ELSE "Object"],
          [i \in 1..(2 * N + 1) |-> 0],
          [i \in 1..(2 * N + 1) |-> ""])

\* [[1],[2],[3],[1,2]] (test union_unique)
UnionDoc ==
    MkDoc(<<0, 1, 1, 1, 1, 2, 3, 4, 5, 5>>,
          <<"Array", "Array", "Array", "Array", "Array", "U64", "U64", "U64", "U64", "U64">>,
          <<0, 0, 0, 0, 0, 1, 2, 3, 1, 2>>,
          <<"", "", "", "", "", "", "", "", "", "">>)

\* [{},null,{},null,{}] (test match_null)
NullDoc ==
    MkDoc(<<0, 1, 1, 1, 1, 1>>,
          <<"Array", "Object", "Null", "Object", "Null", "Object">>,
          <<0, 0, 0, 0, 0, 0>>,
          <<"", "", "", "", "", "">>)

\* the document of the crate documentation's example; 3.14 is held as 314 hundredths
\*  1: [ 2: {"foo": 6: [10: "Hello, world!", 11: 3.14, 12: false]},
\*       3: {"foo": 7: [13: 42, 14: true]},
\*       4: {"foo": 8: "Nope"},
\*       5: {"bar": 9: [15: 42, 16: "Hello, world!"]} ]
BasicDoc ==
    MkDoc(<<0, 1, 1, 1, 1, 2, 3, 4, 5, 6, 6, 6, 7, 7, 9, 9>>,
          <<"Array", "Object", "Object", "Object", "Object", "Array", "Array", "String",
            "Array", "String", "F64", "Boolean", "U64", "Boolean", "U64", "String">>,
          <<0, 0, 0, 0, 0, 0, 0, "Nope", 0, "Hello, world!", 314, FALSE, 42, TRUE, 42,
            "Hello, world!">>,
          <<"", "", "", "", "", "foo", "foo", "foo", "bar", "", "", "", "", "", "", "">>)

\* two arrays holding the scalar variants; an F64 is held in hundredths
\*  1: [ 2: ["Hello, world!", "Hello", true, false],
\*       3: [1u64, 2u64, 1i64, 0.01] ]
MixedDoc ==
    MkDoc(<<0, 1, 1, 2, 2, 2, 2, 3, 3, 3, 3>>,
          <<"Array", "Array", "Array", "String", "String", "Boolean", "Boolean",
            "U64", "U64", "I64", "F64">>,
          <<0, 0, 0, "Hello, world!", "Hello", TRUE, FALSE, 1, 2, 1, 1>>,
          <<"", "", "", "", "", "", "", "", "", "", "">>)

\* a chain of D nested arrays below the root, each array also holding a null
DeepDoc(D) ==
    MkDoc([i \in 1..(2 * D + 1) |-> IF i = 1 THEN 0 ELSE IF i <= D + 1 THEN i - 1 ELSE i - D - 1],
          [i \in 1..(2 * D + 1) |-> IF i <= D THEN "Array" ELSE IF i = D + 1 THEN "Object" ELSE "Null"],
          [i \in 1..(2 * D + 1) |-> 0],
          [i \in 1..(2 * D + 1) |-> ""])

ExampleDocs ==
    {SiblingsDoc(FanOut), NestedDoc(FanOut), UnionDoc, NullDoc, BasicDoc, DeepDoc(Depth),
     MixedDoc}

Docs == GenDocs \cup ExampleDocs

-----------------------------------------------------------------------------
(* The selectors queried *)

\* child().diff(parent(), null()): yields the root once per non-null child
RepeatSel == Diff(Child(Node), Parent(Node), NullSel(Node))

\* inner selectors: single, many, nested, overlapping and repeated matches
InnerSels ==
    {Node, Child(Node), Child(Child(Node)), Descend(Node), Parent(Child(Node)),
     Union(Node, Node, Child(Node)), Union(Node, Child(Node), Node),
     Union(Node, Child(Child(Node)), Child(Node)),
     OrSel(Child(Node), Node, Node), RepeatSel}

PlainInnerSels == {Node, Child(Node), Child(Child(Node)), Descend(Node)}

\* left / right / filter selectors
SideSels ==
    {Node, Child(Node), Parent(Node), NullSel(Node), U64Equals(Node, 1),
     Wherein(Node, U64Equals(Child(Node), 1)), Wherein(Node, U64Equals(Child(Node), 2))}

FilterSels ==
    SideSels \cup
    {OrSel(Child(Node), NullSel(Node), U64Equals(Node, 2)),
     AndSel(Child(Node), NullSel(Node), ObjectSel(Node)),
     Descend(Node), Ascend(Node)}

\* the query of the crate documentation's example
BasicSel ==
    Wherein(Child(ListSel(Node)),
            OrSel(Child(ListSel(Key(Node, "foo"))),
                  StringEquals(Node, "Hello, world!"),
                  U64Equals(Node, 42)))

\* every type filter and every equality filter over one inner selector
TypedSels(i) ==
    {ObjectSel(i), ListSel(i), StringSel(i), StringEquals(i, "Hello, world!"),
     BooleanSel(i), BooleanEquals(i, TRUE), U64Sel(i), U64Equals(i, 1),
     I64Sel(i), I64Equals(i, 1), F64Sel(i), F64Equals(i, 1), NullSel(i)}

\* descend().union(node(), node().union(null(), child())): right meets a node
\* one inner match before left does, and both meet a null on the same one
EarlyRightSel ==
    Union(Descend(Node), Node, Union(Node, NullSel(Node), Child(Node)))

\* intersect(child().child().union(..child()), descend()): left meets the
\* grandchildren before the children, right meets them in pre-order
OrderSel ==
    Intersect(Node, Union(Node, Child(Child(Node)), Child(Node)), Descend(Node))

\* or() as inner of a union whose left is an or() again: the sentinel the inner
\* or() emits is the input of left and of right
SentinelSel ==
    Union(OrSel(Node, Node, Node), OrSel(Node, Node, Node), Descend(Parent(Node)))

ExampleSels ==
    {Child(Parent(Child(Node))), Ascend(Child(Child(Node))), NullSel(Child(Node)),
     BasicSel, Node}

Queries ==
    ExampleSels
    \cup {Child(i) : i \in InnerSels}
    \cup {Parent(i) : i \in InnerSels}
    \cup {Ascend(i) : i \in InnerSels}
    \cup {Descend(i) : i \in InnerSels}
    \cup {ObjectSel(i) : i \in PlainInnerSels}
    \cup {U64Equals(i, 1) : i \in PlainInnerSels}
    \cup TypedSels(Child(Node)) \cup TypedSels(Child(Child(Node)))
    \cup {EarlyRightSel, OrderSel, SentinelSel}
    \cup {At(i, n) : i \in PlainInnerSels, n \in 0..1}
    \cup {Key(i, k) : i \in PlainInnerSels, k \in {"foo", "bar"}}
    \cup {Wherein(i, f) : i \in PlainInnerSels, f \in FilterSels}
    \cup {Union(i, l, r) : i \in PlainInnerSels, l \in SideSels, r \in SideSels}
    \cup {Intersect(i, l, r) : i \in PlainInnerSels, l \in SideSels, r \in SideSels}
    \cup {Diff(i, l, r) : i \in PlainInnerSels, l \in SideSels, r \in SideSels}
    \cup {AndSel(i, l, r) : i \in PlainInnerSels, l \in SideSels, r \in SideSels}
    \cup {OrSel(i, l, r) : i \in PlainInnerSels, l \in SideSels, r \in SideSels}

-----------------------------------------------------------------------------
(* query(): the outermost select call, one closure call per step *)

\* the input path of the outermost select call: JsonPath::root(self)
Input == Root(1)

Init ==
    /\ doc \in Docs
    /\ sel = Node
    /\ pc = "idle"
    /\ pending = <<>>
    /\ side = "left"
    /\ pass = 1
    /\ loc = Locals0
    /\ outvec = <<>>
    /\ history = <<>>

\* the closure of query() putting each node at the front of the vector
PushedFront(L) ==
    LET q == NodesOf(L.out) IN [i \in 1..Len(q) |-> q[Len(q) + 1 - i]]

\* the closure of query(): outvec.push(x.node()) for every path emitted
Pushed(L) == NodesOf(L.out)

\* json.query(s): s.select(JsonPath::root(self), ...) is entered
QueryCall ==
    /\ pc = "idle"
    /\ \E s \in Queries :
          /\ sel' = s
          /\ pending' = IF s.op = "node" THEN <<Input>> ELSE Select(s.inner, Input)
    /\ pc' = "run"
    /\ side' = "left"
    /\ pass' = 1
    /\ loc' = Locals0
    /\ outvec' = <<>>
    /\ UNCHANGED <<doc, history>>

\* a call of the closure ends and the same inner match is handed to it again
AdvanceNever(L) ==
    /\ loc' = L
    /\ outvec' = Pushed(L)
    /\ UNCHANGED <<doc, sel, pc, pass, history, pending>>

\* a call of the closure handed to inner.select ends: the next inner match is due
Advance(L) ==
    /\ loc' = L
    /\ outvec' = Pushed(L)
    /\ pending' = Tail(pending)
    /\ UNCHANGED <<doc, sel, pc, pass, history>>

\* Node::select: f(input)
NodeSelect ==
    /\ pc = "run" /\ sel.op = "node" /\ pending # <<>>
    /\ Advance(Emit(loc, Head(pending)))
    /\ UNCHANGED side

\* one call of the closure each selector hands to self.inner.select
FilterStep ==
    /\ pc = "run" /\ sel.op \in FilterOps /\ pending # <<>>
    /\ Advance(FilterVisit(sel, loc, Head(pending)))
    /\ UNCHANGED side

AtStep ==
    /\ pc = "run" /\ sel.op = "at" /\ pending # <<>>
    /\ Advance(AtVisit(sel, loc, Head(pending)))
    /\ UNCHANGED side

KeyStep ==
    /\ pc = "run" /\ sel.op = "key" /\ pending # <<>>
    /\ Advance(KeyVisit(sel, loc, Head(pending)))
    /\ UNCHANGED side

ChildStep ==
    /\ pc = "run" /\ sel.op = "child" /\ pending # <<>>
    /\ Advance(ChildVisit(loc, Head(pending)))
    /\ UNCHANGED side

ParentStep ==
    /\ pc = "run" /\ sel.op = "parent" /\ pending # <<>>
    /\ Advance(ParentVisit(loc, Head(pending)))
    /\ UNCHANGED side

DescendStep ==
    /\ pc = "run" /\ sel.op = "descend" /\ pending # <<>>
    /\ Advance(DescendVisit(loc, Head(pending)))
    /\ UNCHANGED side

AscendStep ==
    /\ pc = "run" /\ sel.op = "ascend" /\ pending # <<>>
    /\ Advance(AscendVisit(loc, Head(pending)))
    /\ UNCHANGED side

WhereinStep ==
    /\ pc = "run" /\ sel.op = "wherein" /\ pending # <<>>
    /\ Advance(WhereinVisit(sel, loc, Head(pending)))
    /\ UNCHANGED side

\* self.left.select(x, ...) has run inside the closure; self.right.select(x, ...) is next
Halfway(L) ==
    /\ loc' = L
    /\ outvec' = Pushed(L)
    /\ side' = "right"
    /\ UNCHANGED <<doc, sel, pc, pending, pass, history>>

UnionLeftStep ==
    /\ pc = "run" /\ sel.op = "union" /\ pending # <<>> /\ side = "left"
    /\ Halfway(UnionLeft(sel, loc, Head(pending)))

UnionRightStep ==
    /\ pc = "run" /\ sel.op = "union" /\ pending # <<>> /\ side = "right"
    /\ Advance(UnionRight(sel, loc, Head(pending)))
    /\ side' = "left"

IntersectLeftStep ==
    /\ pc = "run" /\ sel.op = "intersect" /\ pending # <<>> /\ side = "left"
    /\ Halfway(IntersectLeft(sel, loc, Head(pending)))

IntersectRightStep ==
    /\ pc = "run" /\ sel.op = "intersect" /\ pending # <<>> /\ side = "right"
    /\ Advance(IntersectRight(sel, loc, Head(pending)))
    /\ side' = "left"

\* AndSel / OrSel: self.left.select(x, |_| found_left = true)
FoundLeftStep ==
    /\ pc = "run" /\ sel.op \in {"and", "or"} /\ pending # <<>> /\ side = "left"
    /\ Halfway(FoundLeft(sel, loc, Head(pending)))

\* AndSel / OrSel: self.right.select(x, |_| found_right = true)
FoundRightStep ==
    /\ pc = "run" /\ sel.op \in {"and", "or"} /\ pending # <<>> /\ side = "right"
    /\ Advance(FoundRight(sel, loc, Head(pending)))
    /\ side' = "left"

\* Diff, first traversal: self.right.select(x, ...) for one inner match
DiffRightStep ==
    /\ pc = "run" /\ sel.op = "diff" /\ pass = 1 /\ pending # <<>>
    /\ Advance(DiffRight(sel, loc, Head(pending)))
    /\ UNCHANGED side

\* Diff going on to left without a second self.inner.select
DiffOnce ==
    /\ pc = "run" /\ sel.op = "diff" /\ pass = 1 /\ pending = <<>>
    /\ pass' = 2
    /\ UNCHANGED <<doc, sel, pc, side, loc, outvec, history, pending>>

\* Diff: the first self.inner.select returns and the second is entered
DiffAgain ==
    /\ pc = "run" /\ sel.op = "diff" /\ pass = 1 /\ pending = <<>>
    /\ pass' = 2
    /\ pending' = Select(sel.inner, Input)
    /\ UNCHANGED <<doc, sel, pc, side, loc, outvec, history>>

\* Diff, second traversal: self.left.select(x, ...) for one inner match
DiffLeftStep ==
    /\ pc = "run" /\ sel.op = "diff" /\ pass = 2 /\ pending # <<>>
    /\ Advance(DiffLeft(sel, loc, Head(pending)))
    /\ UNCHANGED side

\* AndSel / OrSel: inner.select has returned; the sentinel is emitted or not
AndReturnStep ==
    /\ pc = "run" /\ sel.op = "and" /\ pending = <<>>
    /\ loc' = AndReturn(Input, loc)
    /\ outvec' = Pushed(loc')
    /\ pc' = "done"
    /\ UNCHANGED <<doc, sel, pending, side, pass, history>>

OrReturnStep ==
    /\ pc = "run" /\ sel.op = "or" /\ pending = <<>>
    /\ loc' = OrReturn(Input, loc)
    /\ outvec' = Pushed(loc')
    /\ pc' = "done"
    /\ UNCHANGED <<doc, sel, pending, side, pass, history>>

\* every other select returns once its (last) inner.select has returned
SelectReturn ==
    /\ pc = "run" /\ sel.op \notin {"and", "or"} /\ pending = <<>>
    /\ sel.op = "diff" => pass = 2
    /\ pc' = "done"
    /\ UNCHANGED <<doc, sel, pending, side, pass, loc, outvec, history>>

\* query() returns outvec; the caller may run another query on the document
QueryReturn ==
    /\ pc = "done"
    /\ pc' = "idle"
    /\ sel' = Node
    /\ pending' = <<>>
    /\ side' = "left"
    /\ pass' = 1
    /\ loc' = Locals0
    /\ outvec' = <<>>
    /\ UNCHANGED <<doc, history>>

Next ==
    \/ QueryCall
    \/ NodeSelect
    \/ FilterStep
    \/ AtStep
    \/ KeyStep
    \/ ChildStep
    \/ ParentStep
    \/ DescendStep
    \/ AscendStep
    \/ WhereinStep
    \/ UnionLeftStep
    \/ UnionRightStep
    \/ IntersectLeftStep
    \/ IntersectRightStep
    \/ FoundLeftStep
    \/ FoundRightStep
    \/ DiffRightStep
    \/ DiffAgain
    \/ DiffLeftStep
    \/ AndReturnStep
    \/ OrReturnStep
    \/ SelectReturn
    \/ QueryReturn

Spec == Init /\ [][Next]_vars

-----------------------------------------------------------------------------
(* The same selectors run again and again on one document *)

\* how many queries the caller runs one after the other
MaxRuns == 3

AgainDocs == {SiblingsDoc(FanOut), UnionDoc, NullDoc}

\* one selector tree of each kind that keeps a set, and two that keep none
AgainSels ==
    {Parent(Child(Node)), Ascend(Child(Child(Node))), Descend(Child(Node)),
     Union(Child(Node), Parent(Node), Node),
     Intersect(Node, Child(Node), Child(Node)),
     RepeatSel, Child(Node), Wherein(Child(Node), Parent(Node))}

InitAgain == Init /\ doc \in AgainDocs

\* select entered on whatever the locals of the query before left behind
QueryAgainStale ==
    /\ pc = "idle" /\ Len(history) < MaxRuns
    /\ \E s \in AgainSels :
          /\ sel' = s
          /\ pending' = Select(s.inner, Input)
    /\ pc' = "run"
    /\ side' = "left"
    /\ pass' = 1
    /\ loc' = [loc EXCEPT !.out = <<>>]
    /\ outvec' = <<>>
    /\ UNCHANGED <<doc, history>>

\* json.query(s) once more: Vec::new() in query, HashSet::new() in select
QueryAgain ==
    /\ pc = "idle" /\ Len(history) < MaxRuns
    /\ \E s \in AgainSels :
          /\ sel' = s
          /\ pending' = Select(s.inner, Input)
    /\ pc' = "run"
    /\ side' = "left"
    /\ pass' = 1
    /\ loc' = Locals0
    /\ outvec' = <<>>
    /\ UNCHANGED <<doc, history>>

\* query() returns outvec to a caller that keeps it; what the locals of select
\* held is left where it was
QueryReturnKeep ==
    /\ pc = "done"
    /\ pc' = "idle"
    /\ history' = Append(history, [sel |-> sel, result |-> outvec])
    /\ UNCHANGED <<doc, sel, pending, side, pass, loc, outvec>>

NextAgain ==
    \/ QueryAgain
    \/ ChildStep
    \/ ParentStep
    \/ DescendStep
    \/ AscendStep
    \/ WhereinStep
    \/ UnionLeftStep
    \/ UnionRightStep
    \/ IntersectLeftStep
    \/ IntersectRightStep
    \/ DiffRightStep
    \/ DiffAgain
    \/ DiffLeftStep
    \/ SelectReturn
    \/ QueryReturnKeep

SpecAgain == InitAgain /\ [][NextAgain]_vars

-----------------------------------------------------------------------------
(* Vocabulary of the properties *)

Range(f) == {f[i] : i \in DOMAIN f}

\* no value occurs twice in the sequence
NoDup(q) == \A i, k \in DOMAIN q : q[i] = q[k] => i = k

Done(op) == pc = "done" /\ sel.op = op

\* the matches of the inner selector of the running query, in order
InnerMatches == Select(sel.inner, Input)

\* the nodes a selector matches from path x
NodesFrom(s, x) == Range(NodesOf(Select(s, x)))

\* the proper ancestors of node j in the document
RECURSIVE DocAncestors(_)
DocAncestors(j) ==
    IF j = SINGLETON.addr \/ doc.par[j] = 0 THEN {}
    ELSE {doc.par[j]} \cup DocAncestors(doc.par[j])

\* the proper descendants of node j in the document
DocDescendants(j) == {i \in 1..Size(doc) : j \in DocAncestors(i)}

\* the strict ancestors of a match: its path parent's node and that node's ancestors
StrictAncestors(x) ==
    IF HasParent(x)
    THEN {PathNode(PathParent(x))} \cup DocAncestors(PathNode(PathParent(x)))
    ELSE {}

RootIsArray == KindOf(doc, 1) = "Array" /\ ChildrenOf(doc, 1) # <<>>

-----------------------------------------------------------------------------
(* Properties *)

\* the nodes that are the path parent of at least one inner match
ParentsOfInner ==
    {PathNode(PathParent(x)) : x \in {y \in Range(InnerMatches) : HasParent(y)}}

\* C1: inner.parent() emits every node that is the parent of at least one inner
\* match exactly once, however many inner matches share it, and nothing else;
\* on a root array of N >= 1 elements child().parent() yields the root alone.
C1_ParentOnce ==
    sel.op = "parent" =>
        /\ NoDup(outvec)
        /\ Range(outvec) \subseteq ParentsOfInner
        /\ pc = "done" => Range(outvec) = ParentsOfInner
        /\ (pc = "done" /\ sel = Parent(Child(Node)) /\ RootIsArray) => outvec = <<1>>

\* parent() has returned and at least two inner matches shared a parent
C1_Witness ==
    /\ Done("parent")
    /\ outvec # <<>>
    /\ \E i, k \in DOMAIN InnerMatches :
          /\ i # k
          /\ HasParent(InnerMatches[i]) /\ HasParent(InnerMatches[k])
          /\ PathParent(InnerMatches[i]) = PathParent(InnerMatches[k])

\* C2: on every document child().parent().child() returns the same node
\* sequence as child(): the N siblings once each.
C2_ParentChildIsChild ==
    (Done("child") /\ sel = Child(Parent(Child(Node)))) =>
        outvec = Query(Child(Node))

\* child().parent().child() has returned two siblings or more
C2_Witness ==
    /\ Done("child")
    /\ sel = Child(Parent(Child(Node)))
    /\ Len(outvec) >= 2

\* every strict ancestor of every inner match
AncestorsOfInner == UNION {StrictAncestors(x) : x \in Range(InnerMatches)}

\* C3: inner.ascend() emits exactly the strict ancestors of the inner matches,
\* each once; on a root array of N one-element arrays child().child().ascend()
\* yields N + 1 matches.
C3_AscendAllOnce ==
    sel.op = "ascend" =>
        /\ NoDup(outvec)
        /\ Range(outvec) \subseteq AncestorsOfInner
        /\ pc = "done" => Range(outvec) = AncestorsOfInner
        /\ (pc = "done" /\ sel = Ascend(Child(Child(Node))) /\ doc = NestedDoc(FanOut))
              => Len(outvec) = FanOut + 1

\* ascend() has returned, and the walk of a later inner match emitted an
\* ancestor of its own and then met one an earlier walk had emitted
C3_Witness ==
    /\ Done("ascend")
    /\ \E i, k \in DOMAIN InnerMatches :
          /\ i < k
          /\ StrictAncestors(InnerMatches[i]) \cap StrictAncestors(InnerMatches[k]) # {}
          /\ ~(StrictAncestors(InnerMatches[k]) \subseteq StrictAncestors(InnerMatches[i]))

\* every strict descendant of the node of every inner match
DescendantsOfInner == UNION {DocDescendants(PathNode(x)) : x \in Range(InnerMatches)}

\* C4: inner.descend() emits exactly the strict descendants of the inner
\* matches, each once, whatever the order of the inner matches and also when
\* they are nested in one another or repeated; descend() from the root yields
\* as many matches as the document has non-root nodes.
C4_DescendAllOnce ==
    sel.op = "descend" =>
        /\ NoDup(outvec)
        /\ Range(outvec) \subseteq DescendantsOfInner
        /\ pc = "done" => Range(outvec) = DescendantsOfInner
        /\ (pc = "done" /\ sel = Descend(Node)) => Len(outvec) = Size(doc) - 1

\* descend() has returned; an inner match with descendants of its own came
\* before an inner match that is one of its ancestors
C4_Witness ==
    /\ Done("descend")
    /\ \E i, k \in DOMAIN InnerMatches :
          /\ i < k
          /\ PathNode(InnerMatches[k]) \in DocAncestors(PathNode(InnerMatches[i]))
          /\ DocDescendants(PathNode(InnerMatches[i])) # {}

\* the inner matches the outermost closure has been called with so far
Delivered ==
    IF sel.op = "diff" /\ pass = 1 THEN <<>>
    ELSE SubSeq(InnerMatches, 1, Len(InnerMatches) - Len(pending))

\* every node left or right matches on some inner match
UnionOfSides ==
    UNION {NodesFrom(sel.left, x) \cup NodesFrom(sel.right, x) : x \in Range(InnerMatches)}

\* child().union(wherein(child().uint64().equals(1)), wherein(child().uint64().equals(2)))
UnionUniqueSel ==
    Union(Child(Node), Wherein(Node, U64Equals(Child(Node), 1)),
          Wherein(Node, U64Equals(Child(Node), 2)))

\* C5: inner.union(left, right) emits exactly the nodes that left or right
\* matches on some inner match, none twice, also when a node is reached from
\* two inner matches or by both sides; the example on [[1],[2],[3],[1,2]]
\* yields 3 matches.
C5_UnionOnce ==
    sel.op = "union" =>
        /\ NoDup(outvec)
        /\ Range(outvec) \subseteq UnionOfSides
        /\ pc = "done" => Range(outvec) = UnionOfSides
        /\ (pc = "done" /\ sel = UnionUniqueSel /\ doc = UnionDoc) => Len(outvec) = 3

\* union() has returned; one node was reached from two different inner matches
\* and one node by both left and right on the same inner match
C5_Witness ==
    /\ Done("union")
    /\ \E i, k \in DOMAIN InnerMatches :
          /\ i < k
          /\ (NodesFrom(sel.left, InnerMatches[i]) \cup NodesFrom(sel.right, InnerMatches[i]))
                \cap (NodesFrom(sel.left, InnerMatches[k]) \cup NodesFrom(sel.right, InnerMatches[k]))
                # {}
    /\ \E x \in Range(InnerMatches) :
          NodesFrom(sel.left, x) \cap NodesFrom(sel.right, x) # {}

\* the filter of the running wherein() yields at least one match on x
FilterPasses(x) == Select(sel.filter, x) # <<>>

\* C6: inner.wherein(filter) emits each inner match on which filter yields at
\* least one match exactly once, as that very path, and no other: the output
\* is the inner stream without the failing matches, in order.
C6_WhereinKeepsPassing ==
    sel.op = "wherein" => loc.out = SelectSeq(Delivered, FilterPasses)

\* wherein() has returned; the filter yielded several matches on one inner
\* match and none on another
C6_Witness ==
    /\ Done("wherein")
    /\ \E x \in Range(InnerMatches) : Len(Select(sel.filter, x)) >= 2
    /\ \E x \in Range(InnerMatches) : ~FilterPasses(x)

\* some match y of I on x is matched by L or by R, for the filter I.or(L, R)
OrPasses(x) ==
    \E y \in Range(Select(sel.filter.inner, x)) :
        Select(sel.filter.left, y) # <<>> \/ Select(sel.filter.right, y) # <<>>

\* the root's children that are objects whose "foo" value is a list holding
\* the string "Hello, world!" or the number 42, read off the document
BasicExpected ==
    {c \in 1..Size(doc) :
        /\ doc.par[c] = 1 /\ doc.kind[1] = "Array" /\ doc.kind[c] = "Object"
        /\ \E v \in 1..Size(doc) :
              /\ doc.par[v] = c /\ doc.key[v] = "foo" /\ doc.kind[v] = "Array"
              /\ \E e \in 1..Size(doc) :
                    /\ doc.par[e] = v
                    /\ \/ doc.kind[e] = "String" /\ doc.val[e] = "Hello, world!"
                       \/ doc.kind[e] = "U64" /\ doc.val[e] = 42}

\* C7: an inner match x passes wherein(I.or(L, R)) iff some match y of I on x
\* is matched by L or by R; the documented example returns exactly the root's
\* children that are objects whose "foo" is a list holding the string or the
\* number.
C7_WhereinOr ==
    (Done("wherein") /\ sel.filter.op = "or") =>
        /\ loc.out = SelectSeq(InnerMatches, OrPasses)
        /\ sel = BasicSel => (NoDup(outvec) /\ Range(outvec) = BasicExpected)

\* the documented example has returned, keeping some children and dropping others
C7_Witness ==
    /\ Done("wherein")
    /\ sel = BasicSel
    /\ outvec # <<>>
    /\ Len(outvec) < Len(InnerMatches)

\* the condition of and() / or() on inner match x alone
ConditionOn(x) ==
    IF sel.op = "and"
    THEN Select(sel.left, x) # <<>> /\ Select(sel.right, x) # <<>>
    ELSE Select(sel.left, x) # <<>> \/ Select(sel.right, x) # <<>>

\* C8: inner.and(left, right) and inner.or(left, right) yield one sentinel for
\* each inner match x on which the condition holds; its node is the fixed true
\* leaf and its path parent is x.
C8_SentinelPerInnerMatch ==
    (pc = "done" /\ sel.op \in {"and", "or"}) =>
        LET holding == SelectSeq(InnerMatches, ConditionOn)
        IN loc.out = [i \in 1..Len(holding) |-> Descendant(holding[i], SINGLETON.addr)]

\* C9: inner.and(left, right) yields a sentinel only when left and right both
\* match on the same inner match x.
C9_AndOnSameMatch ==
    (Done("and") /\ loc.out # <<>>) =>
        \E x \in Range(InnerMatches) :
            Select(sel.left, x) # <<>> /\ Select(sel.right, x) # <<>>

\* every node left matches on some inner match, and every node right does
LeftAll == UNION {NodesFrom(sel.left, x) : x \in Range(InnerMatches)}
RightAll == UNION {NodesFrom(sel.right, x) : x \in Range(InnerMatches)}

\* C10: inner.intersect(left, right) emits exactly the nodes in both the set of
\* all left matches and the set of all right matches over the inner matches:
\* none matched by one side only, each matched by both at least once.
C10_IntersectBoth ==
    sel.op = "intersect" =>
        /\ Range(outvec) \subseteq LeftAll \cap RightAll
        /\ pc = "done" => Range(outvec) = LeftAll \cap RightAll

\* intersect() has returned a node that left and right matched on different
\* inner matches only, and each side matched a node the other did not
C10_Witness ==
    /\ Done("intersect")
    /\ LeftAll \ RightAll # {}
    /\ RightAll \ LeftAll # {}
    /\ \E n \in Range(outvec) :
          \A x \in Range(InnerMatches) :
              n \notin NodesFrom(sel.left, x) \cap NodesFrom(sel.right, x)

\* C11: inner.diff(left, right) emits a node iff left matches it on some inner
\* match and right matches it on no inner match at all: the right set is
\* collected over every inner match, and nothing is emitted while it is.
C11_DiffLeftNotRight ==
    sel.op = "diff" =>
        /\ pass = 1 => outvec = <<>>
        /\ Range(outvec) \subseteq LeftAll \ RightAll
        /\ pc = "done" => Range(outvec) = LeftAll \ RightAll

\* diff() has returned some node, and withheld a node that left matched on an
\* inner match on which right did not match it: right matched it on a later one
C11_Witness ==
    /\ Done("diff")
    /\ outvec # <<>>
    /\ \E i, k \in DOMAIN InnerMatches :
          /\ i < k
          /\ (NodesFrom(sel.left, InnerMatches[i]) \ NodesFrom(sel.right, InnerMatches[i]))
                \cap NodesFrom(sel.right, InnerMatches[k]) # {}

\* the nodes held directly by container j
Kids(j) == IF j = SINGLETON.addr THEN {} ELSE {c \in 1..Size(doc) : doc.par[c] = j}

\* the node at zero-based position i among the nodes held by j: the one that
\* has exactly i of them before it (a set of one node, or empty)
ElementAt(j, i) == {c \in Kids(j) : Cardinality({b \in Kids(j) : b < c}) = i}

\* the path of node c with path parent x
Under(x, c) == x \o <<c>>

\* the concatenation of a sequence of sequences
RECURSIVE Flatten(_)
Flatten(ss) == IF ss = <<>> THEN <<>> ELSE Head(ss) \o Flatten(Tail(ss))

\* what at(i) is to yield for inner match x
AtExpected(x) ==
    LET e == ElementAt(PathNode(x), sel.index)
    IN IF KindOf(doc, PathNode(x)) = "Array" /\ e # {}
       THEN <<Under(x, CHOOSE c \in e : TRUE)>>
       ELSE <<>>

\* C12: inner.at(i) yields, for each inner match x that is an array of length
\* N with i < N, exactly one match, the element at zero-based index i with path
\* parent x; for i >= N or x not an array it yields nothing.
C12_AtIndex ==
    sel.op = "at" =>
        loc.out = Flatten([n \in DOMAIN Delivered |-> AtExpected(Delivered[n])])

\* at(i) has returned after an array long enough, a non-empty array too short
\* and a node that is no array
C12_Witness ==
    /\ Done("at")
    /\ \E x, y, z \in Range(InnerMatches) :
          /\ AtExpected(x) # <<>>
          /\ KindOf(doc, PathNode(y)) = "Array" /\ Kids(PathNode(y)) # {}
          /\ AtExpected(y) = <<>>
          /\ KindOf(doc, PathNode(z)) # "Array"

\* what key(k) is to yield for inner match x
KeyExpected(x) ==
    LET e == {c \in Kids(PathNode(x)) : doc.key[c] = sel.name}
    IN IF KindOf(doc, PathNode(x)) = "Object" /\ e # {}
       THEN <<Under(x, CHOOSE c \in e : TRUE)>>
       ELSE <<>>

\* C13: inner.key(k) yields, for each inner match x that is an object holding
\* the exact key k, exactly one match, the value under k with path parent x;
\* for an object without that key or any non-object (an array too) it yields
\* nothing.
C13_KeyLookup ==
    sel.op = "key" =>
        loc.out = Flatten([n \in DOMAIN Delivered |-> KeyExpected(Delivered[n])])

\* key(k) has returned after an object holding k, a non-empty object without k
\* and a non-empty array
C13_Witness ==
    /\ Done("key")
    /\ \E x, y, z \in Range(InnerMatches) :
          /\ KeyExpected(x) # <<>>
          /\ KindOf(doc, PathNode(y)) = "Object" /\ Kids(PathNode(y)) # {}
          /\ KeyExpected(y) = <<>>
          /\ KindOf(doc, PathNode(z)) = "Array" /\ Kids(PathNode(z)) # {}

\* what child() is to yield for inner match x: the nodes x holds, in order
ChildExpected(x) ==
    [i \in 1..Cardinality(Kids(PathNode(x))) |->
        Under(x, CHOOSE c \in ElementAt(PathNode(x), i - 1) : TRUE)]

\* C14: inner.child() yields, for each inner match x, one match per element in
\* array order when x is an array and one match per value when x is an object,
\* each with path parent x, and nothing for a leaf: as many matches as x has
\* children.
C14_ChildAll ==
    sel.op = "child" =>
        loc.out = Flatten([n \in DOMAIN Delivered |-> ChildExpected(Delivered[n])])

\* child() has returned after an array of several elements, a non-empty object
\* and a leaf
C14_Witness ==
    /\ Done("child")
    /\ \E x, y, z \in Range(InnerMatches) :
          /\ KindOf(doc, PathNode(x)) = "Array" /\ Len(ChildExpected(x)) >= 2
          /\ KindOf(doc, PathNode(y)) = "Object" /\ Len(ChildExpected(y)) >= 1
          /\ KindOf(doc, PathNode(z)) \notin {"Array", "Object"}
          /\ Len(loc.out) >= Len(ChildExpected(x)) + Len(ChildExpected(y))

\* the variant each filter names
FilterKind ==
    [object |-> "Object", list |-> "Array", string |-> "String",
     string_equals |-> "String", boolean |-> "Boolean", boolean_equals |-> "Boolean",
     uint64 |-> "U64", uint64_equals |-> "U64", int64 |-> "I64",
     int64_equals |-> "I64", float64 |-> "F64", float64_equals |-> "F64",
     null |-> "Null"]

EqualsOps == {"string_equals", "boolean_equals", "uint64_equals", "int64_equals",
              "float64_equals"}

\* inner match x is of the variant the running filter names and, for an equality
\* filter, holds the value compared with
Passes(x) ==
    /\ KindOf(doc, PathNode(x)) = FilterKind[sel.op]
    /\ sel.op \in EqualsOps => ValOf(doc, PathNode(x)) = sel.comp

\* C15: a type filter emits the inner match x unchanged iff x's node has the
\* variant, an equality filter iff it has the variant and the value compared
\* with (the whole string; uint64().equals(v) never an I64 or F64 node), and
\* nothing otherwise; child().null() on [{}, null, {}, null, {}] yields the two
\* nulls.
C15_FiltersByVariant ==
    /\ sel.op \in FilterOps => loc.out = SelectSeq(Delivered, Passes)
    /\ Done("null") /\ sel = NullSel(Child(Node)) /\ doc = NullDoc => outvec = <<3, 5>>

\* uint64().equals(v) has returned a U64 node holding v, after a U64 node
\* holding another value and an I64 and an F64 node holding the same number
C15_Witness ==
    /\ Done("uint64_equals")
    /\ outvec # <<>>
    /\ \E u, i, f \in Range(InnerMatches) :
          /\ KindOf(doc, PathNode(u)) = "U64" /\ ValOf(doc, PathNode(u)) # sel.comp
          /\ KindOf(doc, PathNode(i)) = "I64" /\ ValOf(doc, PathNode(i)) = sel.comp
          /\ KindOf(doc, PathNode(f)) = "F64" /\ ValOf(doc, PathNode(f)) = sel.comp

\* no inner match of the running query gives the selector anything to yield:
\* at(i) meets no array longer than i, key(k) no object holding k, child() only
\* leaves, parent() and ascend() only the root, wherein's filter finds nothing
NothingToYield ==
    \A x \in Range(InnerMatches) :
        CASE sel.op = "at" ->
                ~(KindOf(doc, PathNode(x)) = "Array"
                     /\ Cardinality(Kids(PathNode(x))) > sel.index)
          [] sel.op = "key" ->
                ~(KindOf(doc, PathNode(x)) = "Object"
                     /\ \E c \in Kids(PathNode(x)) : doc.key[c] = sel.name)
          [] sel.op = "child" -> Kids(PathNode(x)) = {}
          [] sel.op \in {"parent", "ascend"} -> x = Input
          [] sel.op = "wherein" -> NodesFrom(sel.filter, x) = {}
          [] OTHER -> FALSE

\* C16: no selector has a failure outcome: at with an index out of range, key
\* on a non-object or for a missing key, child on a leaf, parent and ascend on
\* the root and wherein whose filter finds nothing yield zero matches, and the
\* query returns an empty collection.
C16_NoMatchIsEmpty ==
    sel.op \in {"at", "key", "child", "parent", "ascend", "wherein"} /\ NothingToYield =>
        /\ loc.out = <<>>
        /\ outvec = <<>>
        /\ pc \in {"run", "done"}

\* at(i) has returned nothing after meeting a non-empty array that is too short
C16_Witness ==
    /\ Done("at")
    /\ outvec = <<>>
    /\ \E x \in Range(InnerMatches) :
          /\ KindOf(doc, PathNode(x)) = "Array"
          /\ Kids(PathNode(x)) # {}
          /\ Cardinality(Kids(PathNode(x))) <= sel.index

\* C17: query(D, S) calls S.select once with the parentless root path of D and
\* returns the node of every emitted path, in emission order, adding and
\* dropping nothing; query(D, node()) returns [D].
C17_QueryCollects ==
    /\ ~HasParent(Input) /\ PathNode(Input) = 1
    /\ \A n \in DOMAIN pending : pending[n][1] = PathNode(Input)
    /\ Len(outvec) = Len(loc.out)
    /\ \A n \in DOMAIN outvec : outvec[n] = loc.out[n][Len(loc.out[n])]
    /\ pc = "done" => outvec = Query(sel)
    /\ Done("node") => outvec = <<1>>

\* query() has returned a vector in which a node occurs twice and the first
\* and last entries differ
C17_Witness ==
    /\ pc = "done"
    /\ Len(outvec) >= 3
    /\ ~NoDup(outvec)
    /\ outvec[1] # outvec[Len(outvec)]

\* C18: selectors keep nothing between queries: the same selector tree run on
\* the same document any number of times, with other queries in between,
\* returns the same vector each time, also for parent, ascend, descend, union,
\* intersect and diff.
C18_SameResultEachTime ==
    \A i, k \in DOMAIN history :
        history[i].sel = history[k].sel => history[i].result = history[k].result

\* a selector that keeps a set has returned the same non-empty vector twice,
\* with a query of another selector that keeps a set in between
C18_Witness ==
    /\ Len(history) >= 3
    /\ history[1].sel = history[3].sel
    /\ history[1].result = history[3].result
    /\ history[1].result # <<>>
    /\ history[2].sel # history[1].sel
    /\ history[2].result # <<>>
    /\ {history[1].sel.op, history[2].sel.op}
          \subseteq {"parent", "ascend", "descend", "union", "intersect", "diff"}

\* the outermost select has been entered and has not run its closure yet
Entered ==
    /\ pc = "run" /\ pass = 1 /\ side = "left"
    /\ pending = InnerMatches
    /\ loc.out = <<>>

\* C19: every identity set is created empty at the start of one select
\* invocation and shared with no other: a select is entered on empty sets
\* whatever ran before, and a filter of wherein runs once per inner match on a
\* set of its own, so child().wherein(parent()) yields every child of a
\* container.
C19_FreshSets ==
    /\ Entered => loc.seen = {} /\ loc.seen_left = {} /\ loc.seen_right = {}
    /\ Done("wherein") /\ sel = Wherein(Child(Node), Parent(Node)) =>
          outvec = NodesOf(ChildExpected(Input))

\* child().wherein(parent()) has returned the several children of the root,
\* after an earlier query whose select left a non-empty set behind
C19_Witness ==
    /\ Done("wherein") /\ sel = Wherein(Child(Node), Parent(Node))
    /\ Len(outvec) >= 2
    /\ \E n \in DOMAIN history :
          history[n].sel.op = "parent" /\ history[n].result # <<>>

\* the closure calls and returns a select in position p still has to make, for
\* selector s, inner matches pd still due, side sd and pass ps
Remaining(p, s, pd, sd, ps) ==
    CASE p \in {"done", "idle"} -> 0
      [] s.op \in {"union", "intersect", "and", "or"} ->
            1 + 2 * Len(pd) - (IF sd = "right" THEN 1 ELSE 0)
      [] s.op = "diff" /\ ps = 1 -> 1 + Len(pd) + 1 + Len(Select(s.inner, Input))
      [] OTHER -> 1 + Len(pd)

\* the most paths one closure call of the running select can emit: ascend's
\* loop climbs the path of the match, descend's recursion visits what is below it
Reach ==
    CASE sel.op = "ascend" -> Len(Head(pending)) - 1
      [] sel.op = "descend" -> Cardinality(DocDescendants(PathNode(Head(pending))))
      [] OTHER -> Size(doc)

\* the running select has a step to take: a closure call for the inner match
\* due, or a return (for diff's first traversal, the second one) when none is
CanStep ==
    IF pending # <<>>
    THEN CASE sel.op \in {"union", "intersect", "and", "or"} -> side \in {"left", "right"}
           [] sel.op = "diff" -> pass \in {1, 2}
           [] OTHER -> sel.op \in FilterOps \cup
                          {"node", "at", "key", "child", "parent", "descend", "ascend", "wherein"}
    ELSE sel.op = "diff" => pass \in {1, 2}

\* C20: for every finite document and selector tree every select call returns,
\* so query terminates: a running select always has a next step, each step
\* leaves one step fewer to take, and one closure call of ascend emits at most
\* the length of the match's path and one of descend at most the nodes below
\* the match, also when inner matches overlap or repeat.
C20_Terminates ==
    /\ [](pc = "run" => CanStep /\ Remaining(pc, sel, pending, side, pass) >= 1)
    /\ [][pc = "run" => Remaining(pc', sel', pending', side', pass')
                           = Remaining(pc, sel, pending, side, pass) - 1]_vars
    /\ [][pc = "run" /\ pending # <<>> => Len(loc'.out) - Len(loc.out) <= Reach]_vars

\* ascend() or descend() has returned after inner matches that repeat a node
C20_Witness ==
    /\ pc = "done" /\ sel.op \in {"ascend", "descend"}
    /\ Len(InnerMatches) >= 3
    /\ ~NoDup(NodesOf(InnerMatches))
    /\ outvec # <<>>

\* the sequence q without the later occurrences of each value
FirstOccurrences(q) ==
    LET idx == {i \in DOMAIN q : \A k \in 1..(i - 1) : q[k] # q[i]}
    IN [n \in 1..Cardinality(idx) |->
           q[CHOOSE i \in idx : Cardinality({k \in idx : k < i}) = n - 1]]

\* the inner match whose left pass has run and whose right pass has not
MidMatch == IF pc = "run" /\ side = "right" /\ pending # <<>> THEN <<Head(pending)>> ELSE <<>>

\* the nodes left has encountered so far in the running select call
LeftSoFar ==
    UNION {NodesFrom(sel.left, x) : x \in Range(Delivered) \cup Range(MidMatch)}

\* the nodes left and right have encountered so far, in the order of the
\* passes: left on x1, right on x1, left on x2, ...
Encounters ==
    Flatten([n \in DOMAIN Delivered |->
                NodesOf(Select(sel.left, Delivered[n]))
                   \o NodesOf(Select(sel.right, Delivered[n]))])
       \o Flatten([n \in DOMAIN MidMatch |-> NodesOf(Select(sel.left, MidMatch[n]))])

\* C21 as claimed: for inner.union(left, right) a node matched by both left and
\* right, on the same or on different inner matches, is emitted at the moment
\* left first encounters it and never during a right pass: it is in the
\* output exactly when left has encountered it.
C21_LeftEmitsShared ==
    sel.op = "union" =>
        \A j \in LeftAll \cap RightAll : j \in Range(outvec) <=> j \in LeftSoFar

\* C21 as amended: inner.union(left, right) emits a node at its first encounter
\* in the order of the passes (left on x1, right on x1, left on x2, ...): a
\* node both sides match on the same inner match, not met before, is emitted
\* during left's pass, and a node right matches on an earlier inner match than
\* left is emitted during that right pass.
C21_FirstEncounterEmits ==
    sel.op = "union" => outvec = FirstOccurrences(Encounters)

\* union() has returned a node both sides matched on one inner match, and a
\* node right matched on an earlier inner match than any on which left did
C21_Witness ==
    /\ Done("union")
    /\ \E x \in Range(InnerMatches) :
          NodesFrom(sel.left, x) \cap NodesFrom(sel.right, x) # {}
    /\ \E i, k \in DOMAIN InnerMatches :
          /\ i < k
          /\ \E j \in NodesFrom(sel.right, InnerMatches[i]) \cap NodesFrom(sel.left, InnerMatches[k]) :
                \A m \in 1..i : j \notin NodesFrom(sel.left, InnerMatches[m])

\* the paths above path x, the nearest first and the root's last
UpPaths(x) == [i \in 1..(Len(x) - 1) |-> SubSeq(x, 1, Len(x) - i)]

\* the walk ascend is to make from x when the nodes of met have been emitted:
\* upward from the nearest ancestor, ending before the first one already met
WalkFrom(x, met) ==
    LET up == UpPaths(x)
        stop == {i \in DOMAIN up : PathNode(up[i]) \in met}
    IN SubSeq(up, 1, IF stop = {} THEN Len(up)
                     ELSE (CHOOSE i \in stop : \A k \in stop : i <= k) - 1)

\* the walks for the inner matches xs in turn, met being emitted before them
RECURSIVE WalksFrom(_, _)
WalksFrom(xs, met) ==
    IF xs = <<>> THEN <<>>
    ELSE LET w == WalkFrom(Head(xs), met)
         IN w \o WalksFrom(Tail(xs), met \cup Range(NodesOf(w)))

\* C22: for inner.ascend() and each inner match, the ancestors emitted for that
\* match run from the nearest not yet seen ancestor upward toward the root, and
\* the walk stops at the first ancestor emitted earlier in the same select
\* call or at the root.
C22_AscendNearestFirst ==
    sel.op = "ascend" => loc.out = WalksFrom(Delivered, {})

\* ascend() has returned; the first walk emitted several ancestors, and a
\* later walk emitted its nearest ancestor and stopped at one already emitted
C22_Witness ==
    /\ Done("ascend")
    /\ Len(InnerMatches) >= 2
    /\ Len(InnerMatches[1]) >= 3
    /\ \E k \in 2..Len(InnerMatches) :
          /\ HasParent(InnerMatches[k])
          /\ \A i \in 1..(k - 1) :
                PathNode(PathParent(InnerMatches[k])) \notin StrictAncestors(InnerMatches[i])
          /\ StrictAncestors(InnerMatches[k]) \cap StrictAncestors(InnerMatches[1]) # {}

\* the nodes descend has gone through before the n-th inner match: the nodes
\* of the earlier inner matches and everything below them
MetBefore(n) ==
    UNION {{PathNode(InnerMatches[i])} \cup DocDescendants(PathNode(InnerMatches[i])) :
              i \in 1..(n - 1)}

\* the paths below x in depth-first pre-order: each child in order, followed
\* at once by what is below it; nothing below a node gone through before
RECURSIVE PreOrder(_, _)
PreOrder(x, met) ==
    IF PathNode(x) \in met THEN <<>>
    ELSE Flatten([i \in 1..Cardinality(Kids(PathNode(x))) |->
                    LET c == Under(x, CHOOSE e \in ElementAt(PathNode(x), i - 1) : TRUE)
                    IN <<c>> \o PreOrder(c, met)])

\* C23: inner.descend() emits in depth-first pre-order: for one inner match
\* every node comes before its own descendants and the whole subtree of a
\* child before the next sibling of that child, array elements in array order.
C23_DescendPreOrder ==
    sel.op = "descend" =>
        loc.out = Flatten([n \in DOMAIN Delivered |-> PreOrder(Delivered[n], MetBefore(n))])

\* descend() has returned after a single inner match below which a child with
\* children of its own is followed by a sibling
C23_Witness ==
    /\ Done("descend")
    /\ Len(InnerMatches) = 1
    /\ \E c, d \in Kids(PathNode(InnerMatches[1])) : c < d /\ Kids(c) # {}

\* the nodes right has encountered so far in the running select call
RightSoFar == UNION {NodesFrom(sel.right, x) : x \in Range(Delivered)}

\* the paths of ps whose node is in set S, in the order of ps
Keep(ps, S) == SelectSeq(ps, LAMBDA p : PathNode(p) \in S)

\* what right had encountered before the n-th inner match, and what left had
\* encountered once its pass on the n-th inner match was over
RightUpTo(n) == UNION {NodesFrom(sel.right, InnerMatches[i]) : i \in 1..n}
LeftUpTo(n) == UNION {NodesFrom(sel.left, InnerMatches[i]) : i \in 1..n}

\* the encounters of each pass so far that find their node in the other set
IntersectExpected ==
    Flatten([n \in DOMAIN Delivered |->
                Keep(Select(sel.left, Delivered[n]), RightUpTo(n - 1))
                   \o Keep(Select(sel.right, Delivered[n]), LeftUpTo(n))])
       \o Flatten([n \in DOMAIN MidMatch |->
                     Keep(Select(sel.left, MidMatch[n]), RightUpTo(Len(Delivered)))])

\* C24: for inner.intersect(left, right) a node is emitted only at a moment
\* when it is recorded in both the left-seen and the right-seen set, on the
\* pass that completes the match second; with a single inner match nothing is
\* emitted while left runs, and the output is right's match stream restricted
\* to the nodes left has matched, in right's discovery order.
C24_IntersectOnCompletion ==
    sel.op = "intersect" =>
        /\ loc.seen_left = LeftSoFar /\ loc.seen_right = RightSoFar
        /\ Range(outvec) = loc.seen_left \cap loc.seen_right
        /\ loc.out = IntersectExpected
        /\ Len(InnerMatches) = 1 =>
              /\ MidMatch # <<>> => outvec = <<>>
              /\ pc = "done" =>
                    loc.out = Keep(Select(sel.right, InnerMatches[1]),
                                   NodesFrom(sel.left, InnerMatches[1]))

\* intersect() has returned, after a single inner match, several nodes in the
\* order right met them, which is not the order left met them
C24_Witness ==
    /\ Done("intersect")
    /\ Len(InnerMatches) = 1
    /\ Len(outvec) >= 3
    /\ outvec # NodesOf(Keep(Select(sel.left, InnerMatches[1]), Range(outvec)))

\* what jlens.rs's Intersect::select has emitted when it has made the passes
\* lib.rs's has made so far
JlensSoFar ==
    LET L == JlensIntersectEach(sel, Locals0, Delivered)
    IN IF MidMatch = <<>> THEN L ELSE JlensIntersectLeft(sel, L, MidMatch[1])

\* C25: the two revisions of intersect (jlens.rs and lib.rs Intersect::select)
\* emit the identical sequence of nodes for every document and every inner,
\* left and right selectors, also when a match is completed during a left
\* pass.
C25_RevisionsAgree ==
    sel.op = "intersect" => outvec = NodesOf(JlensSoFar.out)

\* the inner matches of the traversal under way that have been handed on
Traversed == SubSeq(InnerMatches, 1, Len(InnerMatches) - Len(pending))

\* C26: in one select call of inner.diff(left, right) the inner selector is
\* evaluated exactly twice on the same input; during the first traversal only
\* right runs and nothing is emitted, and every right evaluation completes
\* before the first left evaluation starts, so the right set is complete when
\* the first left match is tested.
C26_DiffTwoTraversals ==
    /\ [](sel.op = "diff" /\ pc # "idle" =>
            /\ pass \in {1, 2}
            /\ pending = SubSeq(InnerMatches, Len(Traversed) + 1, Len(InnerMatches))
            /\ pass = 1 =>
                  /\ loc.out = <<>>
                  /\ loc.seen = UNION {NodesFrom(sel.right, x) : x \in Range(Traversed)}
                  /\ pc = "run"
            /\ pass = 2 => loc.seen = RightAll)
    /\ [][pc = "run" /\ sel.op = "diff" =>
             \/ pass' = pass /\ Len(pending') = Len(pending) - 1
             \/ pass' = pass /\ pass = 2 /\ pending = <<>> /\ pc' = "done"
             \/ /\ pass = 1 /\ pass' = 2
                /\ pending = <<>> /\ pending' = InnerMatches
                /\ loc' = loc]_vars

\* diff() has returned; the last inner match gave right a node that left had
\* matched on the first inner match and right on no inner match before the last
C26_Witness ==
    /\ Done("diff")
    /\ Len(InnerMatches) >= 2
    /\ \E j \in NodesFrom(sel.left, InnerMatches[1])
                  \cap NodesFrom(sel.right, InnerMatches[Len(InnerMatches)]) :
          \A i \in 1..(Len(InnerMatches) - 1) : j \notin NodesFrom(sel.right, InnerMatches[i])

\* the paths of ps whose node is not in S, in order and with repetitions
Drop(ps, S) == SelectSeq(ps, LAMBDA p : PathNode(p) \notin S)

\* an array all of whose elements are non-null
NonNullArray(j) ==
    /\ KindOf(doc, j) = "Array"
    /\ \A c \in Kids(j) : KindOf(doc, c) # "Null"

\* C27: diff does not deduplicate: its output is the stream of left's matches
\* during the second traversal, in order and with repetitions, minus those
\* whose node is in the right set; child().diff(parent(), null()) on an array
\* of N non-null elements emits the root N times.
C27_DiffKeepsRepeats ==
    sel.op = "diff" /\ pass = 2 =>
        /\ loc.out = Flatten([n \in DOMAIN Delivered |->
                         Drop(Select(sel.left, Delivered[n]), RightAll)])
        /\ pc = "done" /\ sel = RepeatSel /\ NonNullArray(1) =>
               outvec = [i \in 1..Cardinality(Kids(1)) |-> 1]

\* child().diff(parent(), null()) has returned the root of an array of
\* several non-null elements once for each element
C27_Witness ==
    /\ Done("diff") /\ sel = RepeatSel /\ NonNullArray(1)
    /\ Cardinality(Kids(1)) >= 2
    /\ Len(outvec) = Cardinality(Kids(1))
    /\ ~NoDup(outvec)

\* every path some selector of the tree s emits while s.select(input) runs:
\* what s emits, what its inner emits, and what its left, right and filter emit
\* on each inner match
RECURSIVE EmittedBy(_, _)
EmittedBy(s, input) ==
    Range(Select(s, input))
    \cup (IF s.op = "node" THEN {}
          ELSE EmittedBy(s.inner, input)
               \cup UNION {(IF "left" \in DOMAIN s THEN EmittedBy(s.left, x) ELSE {})
                           \cup (IF "right" \in DOMAIN s THEN EmittedBy(s.right, x) ELSE {})
                           \cup (IF "filter" \in DOMAIN s THEN EmittedBy(s.filter, x) ELSE {})
                           : x \in Range(Select(s.inner, input))})

\* the paths the running query has emitted or holds, those of the selectors
\* inside the outermost included once it has returned
PathsAbout ==
    Range(loc.out) \cup Range(pending)
    \cup (IF pc = "done" THEN EmittedBy(sel, Input) ELSE {})

\* path p ends at the and/or sentinel
IsSentinel(p) == PathNode(p) = SINGLETON.addr

\* the first n entries of p are the ancestor chain of a node of the document:
\* the root, then at each link a child of the entry before
RealChain(p, n) ==
    /\ n >= 1 /\ p[1] = 1
    /\ \A i \in 2..n : p[i] \in 1..Size(doc) /\ doc.par[p[i]] = p[i - 1]

\* C28 as claimed: every emitted path whose node is a node of the document has
\* as parent chain the node's real ancestor chain, each link a true
\* parent-child edge, ending at the parentless path of the root; only a
\* sentinel path has a node that is not a child of its parent path's node, and
\* a sentinel is never the parent of any path.
C28_SentinelNeverParent ==
    \A p \in PathsAbout :
        /\ ~IsSentinel(p) => RealChain(p, Len(p))
        /\ \A i \in 1..(Len(p) - 1) : p[i] # SINGLETON.addr

\* C28 as amended: every emitted path whose node is a node of the document has
\* as parent chain the node's real ancestor chain, each link a true
\* parent-child edge, ending at the parentless path of the root; only a
\* sentinel path has a node that is not a child of its parent path's node, and
\* a sentinel is never the parent of a path of a node of the document: it is
\* the parent only of another sentinel path, which and/or emit when their
\* input is a sentinel path, and below the sentinels the chain is real.
C28_PathsWellFormed ==
    \A p \in PathsAbout :
        /\ ~IsSentinel(p) => RealChain(p, Len(p))
        /\ IsSentinel(p) =>
              \E n \in 1..(Len(p) - 1) :
                  /\ RealChain(p, n)
                  /\ \A i \in (n + 1)..Len(p) : p[i] = SINGLETON.addr

\* the query has returned a path of a node three levels deep and a sentinel
\* path whose parent is a sentinel path, the inner match
C28_Witness ==
    /\ pc = "done"
    /\ \E p, r \in Range(loc.out) :
          /\ ~IsSentinel(p) /\ Len(p) >= 3
          /\ IsSentinel(r) /\ PathParent(r) \in Range(InnerMatches)
          /\ IsSentinel(PathParent(r))

=============================================================================
